---- MODULE Spec2Model ----
(***************************************************************************)
(* Withdrawal monitoring: the scan / dedup / ledger / alert pipeline of    *)
(* withdrawal_monitor.py and blockchain_monitor.py.                        *)
(*                                                                         *)
(* One monitoring cycle is run_single_check: monitor_withdrawals (for each *)
(* chain get_recent_transactions, then the per-transaction loop), the two  *)
(* saves, then cleanup_old_data.  The ledger (web3) is the environment: it *)
(* reports a current height per call and may fail any request.             *)
(*                                                                         *)
(* Specifications: Spec (everything), SpecFaults (the clock stands still), *)
(* SpecReliable (nothing fails), SpecAged (SpecFaults from an emptied      *)
(* ledger file), SpecLagging (one process against lagging nodes),          *)
(* SpecChunk (the chunk loop of one scan), SpecStats (the statistics       *)
(* queries over a persisted ledger), SpecMatcher (the function matcher),   *)
(* SpecShared (SpecFaults from a hash already recorded on one chain),      *)
(* SpecStartup (SpecFaults with chains whose connection failed),           *)
(* SpecNotifier (the low-balance alert cooldown), SpecCodec (the ledger    *)
(* file written and read back), SpecRetry (retry_with_backoff),            *)
(* SpecLimiter (RateLimiter).                                              *)
(***************************************************************************)
EXTENDS Integers, Sequences, FiniteSets, TLC

(* ------------------------------ bounds -------------------------------- *)
MaxHeightSteps == 1      \* the ledger reports one of MaxHeightSteps+1 heights
MaxCycles == 2           \* run_single_check calls explored
MaxFaults == 2           \* failed requests, failed writes, crashes explored
MaxTicks == 1            \* wall-clock jumps explored
MaxInputLen == 5         \* SpecMatcher: bytes of a transaction's input
MaxLimiterCalls == 4      \* SpecLimiter: is_allowed calls
MaxRetries == 3           \* SpecRetry: largest max_retries
MaxAlertCalls == 3        \* SpecNotifier: send_low_balance_alert calls
MaxWaits == 2             \* SpecNotifier: times the clock is advanced
CodecLedgerLen == 2       \* SpecCodec: events in a chain's ledger
StatsDays == 1           \* SpecStats: calendar days the instants span
StatsLedgerLen == 2      \* SpecStats: events in a chain's persisted ledger
ChunkSpan == 2           \* SpecChunk: ranges start and end below
                         \* (ChunkSpan + 1) * max_blocks_per_request
InitialBlockRange == 600 \* config['monitoring']['initial_block_range']

(* ------------------------- program constants -------------------------- *)
max_blocks_per_request == 500
days_to_keep == 7
alert_cooldown_minutes == 60
processed_limit == 10000
processed_keep == 5000
seconds_per_day == 86400  \* timedelta(days=1), the length of a .date()

(* --------------------------- configuration ---------------------------- *)
Chains == <<"a", "b">>                 \* config['chains'].keys(), in order
ChainSet == {Chains[i] : i \in 1..Len(Chains)}

(* ----------------------------- environment ---------------------------- *)
\* Heights the ledger may report as w3.eth.block_number.
Heights == {1000 + 300 * k : k \in 0..MaxHeightSteps}

\* Bytes are the integers 0..255 and byte strings are sequences of them.
\* w3.keccak(text="withdraw(uint256,address,uint256,uint8,bytes32,bytes32)")
\* [:4] is 0x61c8e739.
withdraw_selector == <<97, 200, 231, 57>>

\* the selector of transfer(address,uint256), 0xa9059cbb: some other call
transfer_selector == <<169, 5, 156, 187>>

\* A 32-byte ABI word (big-endian): first byte pad, last byte value, zero
\* in between.
word(pad, value) ==
  [i \in 1..32 |-> IF i = 1 THEN pad ELSE IF i = 32 THEN value ELSE 0]

\* withdraw(id=7, trader=0x..09, amount=5, v=27, r, s)
WithdrawCall ==
  withdraw_selector \o word(0, 7) \o word(0, 9) \o word(0, 5) \o word(0, 27)
  \o word(1, 1) \o word(2, 2)

\* a withdraw call whose parameter data ends after the first word
TruncatedCall == withdraw_selector \o word(0, 7)

\* a withdraw call whose uint8 word has a non-zero padding byte
BadPaddingCall ==
  withdraw_selector \o word(0, 7) \o word(0, 9) \o word(0, 5) \o word(1, 27)
  \o word(1, 1) \o word(2, 2)

\* transfer(to=0x..09, value=5)
TransferCall == transfer_selector \o word(0, 9) \o word(0, 5)

\* The transactions that sent logs from the exchange contract, by chain.
\* receipt_status is the status field of the receipt, input the call data,
\* timestamp the block time in seconds, logs the number of log entries the
\* transaction emitted from the contract (all in the transaction's block).
Txs ==
  { [chain |-> "a", hash |-> "h1", block_number |-> 950,
     receipt_status |-> 0, input |-> WithdrawCall, timestamp |-> 86400,
     logs |-> 2],
    [chain |-> "a", hash |-> "h2", block_number |-> 1200,
     receipt_status |-> 1, input |-> TruncatedCall, timestamp |-> 172800,
     logs |-> 1],
    [chain |-> "b", hash |-> "h3", block_number |-> 1250,
     receipt_status |-> 0, input |-> BadPaddingCall, timestamp |-> 172800,
     logs |-> 2],
    [chain |-> "b", hash |-> "h4", block_number |-> 1250,
     receipt_status |-> 1, input |-> TransferCall, timestamp |-> 172800,
     logs |-> 1] }

Hashes == {t.hash : t \in Txs}

Min(x, y) == IF x <= y THEN x ELSE y

VARIABLES
  pc,                      \* "idle", "chains", "save_daily", "cleanup"
  chainIdx,                \* index in Chains of the next chain to scan
  last_processed_blocks,   \* dict chain -> height (BlockchainMonitor)
  processed_transactions,  \* [tracked: set of hashes of Txs, others: count]
  daily_transactions,      \* chain -> sequence of Transaction (<<>>: no key)
  file_processed,          \* processed_transactions.json
  file_daily,              \* daily_transactions.json
  recent,                  \* recent_transactions not yet iterated
  all_transactions,        \* the list monitor_withdrawals returns
  scan,                    \* what the last get_recent_transactions call did
  alerts,                  \* hash -> send_failed_withdrawal_alert calls, ever
  pass_alerts,             \* hashes alerted in the current monitor_withdrawals
  loaded,                  \* hashes of Txs read from the file at process start
  web3_instances,          \* the chains _setup_web3_instances connected to
  pass_start,              \* ProcessedSet and the ledger's lengths when the
                           \* current monitor_withdrawals call was entered
  receipt_unavailable,     \* hashes whose receipt request returned None, ever
  notify_failed,           \* hashes whose alert the notifier did not deliver
  now,                     \* wall clock, in seconds
  cycles, faults, ticks,   \* counters for the bounds
  \* the chunk loop of get_recent_transactions on its own (SpecChunk)
  start_block,             \* first block of the range
  current_block,           \* last block of the range
  chunk_start,             \* the loop variable
  requests,                \* the get_logs requests issued so far
  \* the statistics queries on their own (SpecStats)
  query,                   \* the last statistics call and its arguments
  stats,                   \* what it returned
  \* the loop body over tx_hashes for one transaction (SpecMatcher)
  tx_input,                \* tx.input
  matched,                 \* <<>>, or <<what _is_withdraw_function returned>>
  transactions,            \* the list get_recent_transactions builds
  \* TelegramNotifier.send_low_balance_alert on its own (SpecNotifier)
  last_balance_alerts,     \* dict alert_key -> time of the last accepted call
  alert_calls,             \* the calls made so far and what each did
  \* the ledger file written and read back (SpecCodec)
  starts,                  \* how often the process has been started
  \* one call of a function wrapped by retry_with_backoff (SpecRetry)
  max_retries,             \* the decorator's arguments
  backoff_factor,
  attempt,                 \* the loop variable of wrapper
  invocations,             \* what each call of func did, in order
  sleeps,                  \* the arguments of the time.sleep calls, in order
  wrapper_result,          \* how wrapper ended, if it has
  \* a RateLimiter and the calls of is_allowed (SpecLimiter)
  max_calls,               \* the constructor's arguments
  time_window,
  calls,                   \* self.calls
  answers                  \* every is_allowed call: its time and its answer

main_vars == <<pc, chainIdx, last_processed_blocks, processed_transactions,
               daily_transactions, file_processed, file_daily, recent,
               all_transactions, scan, alerts, pass_alerts, loaded,
               receipt_unavailable, notify_failed, now, cycles, faults,
               ticks, web3_instances, pass_start>>

chunk_vars == <<start_block, current_block, chunk_start, requests>>

stats_vars == <<query, stats>>

outcome_vars == <<receipt_unavailable, notify_failed>>

matcher_vars == <<tx_input, matched, transactions>>

notifier_vars == <<last_balance_alerts, alert_calls>>

codec_vars == <<starts>>

retry_vars == <<max_retries, backoff_factor, attempt, invocations, sleeps,
                wrapper_result>>

limiter_vars == <<max_calls, time_window, calls, answers>>

utility_vars == <<notifier_vars, codec_vars, retry_vars, limiter_vars>>

\* what the monitoring cycle leaves alone
aux_vars == <<chunk_vars, stats_vars, matcher_vars, utility_vars>>

vars == <<main_vars, chunk_vars, stats_vars, matcher_vars, utility_vars>>

(* ------------------------- BlockchainMonitor -------------------------- *)
\* w3.eth.get_logs({'fromBlock', 'toBlock', 'address'}) on chain c: the log
\* entries of the contract in the blocks fromBlock..toBlock
get_logs(c, fromBlock, toBlock) ==
  UNION {{[transactionHash |-> t.hash, blockNumber |-> t.block_number,
           logIndex |-> k] : k \in 1..t.logs} :
         t \in {u \in Txs : u.chain = c /\ fromBlock <= u.block_number
                                       /\ u.block_number <= toBlock}}

\* w3.eth.get_transaction(tx_hash)
get_transaction(tx_hash) == CHOOSE t \in Txs : t.hash = tx_hash

\* _is_withdraw_function with startswith() the wrong way round: an input
\* that is a proper prefix of the selector matches
is_withdraw_function_startswith(input_data) ==
  SubSeq(input_data, 1, Min(4, Len(input_data)))
    = SubSeq(withdraw_selector, 1, Min(4, Len(input_data)))

\* _is_withdraw_function(input_data)
is_withdraw_function(input_data) ==
  IF Len(input_data) < 4 THEN FALSE
  ELSE LET function_selector == SubSeq(input_data, 1, 4)
       IN function_selector = withdraw_selector

\* the unsigned integer the first n bytes are, most significant byte first
RECURSIVE big_endian_prefix(_, _)
big_endian_prefix(bytes, n) ==
  IF n = 0 THEN 0
  ELSE 256 * big_endian_prefix(bytes, n - 1) + bytes[n]

\* int.from_bytes(bytes, 'big')
big_endian(bytes) == big_endian_prefix(bytes, Len(bytes))

\* whether w3.codec.decode(['uint256', 'address', 'uint256', 'uint8',
\* 'bytes32', 'bytes32'], params_data) returns: six words are there, and
\* the padding of the address (12 bytes) and of the uint8 (31 bytes) is zero
decodable(params_data) ==
  /\ Len(params_data) >= 6 * 32
  /\ \A i \in 33..44 : params_data[i] = 0
  /\ \A i \in 97..127 : params_data[i] = 0

\* the dict decode_withdraw_params returns in its except clause
NoParams == [k \in {} |-> 0]

\* decode_withdraw_params when the except clause returns what the words
\* that are there decode to
decode_withdraw_params_partial(input_data) ==
  IF Len(input_data) >= 4 + 32
  THEN [k \in {"id"} |-> big_endian(SubSeq(input_data, 5, 36))]
  ELSE NoParams

\* decode_withdraw_params(input_data): input_data is tx.input.hex(), which
\* bytes.fromhex turns back into the bytes of tx.input; r and s are the
\* words themselves (their .hex()), trader the 20 bytes of the address
decode_withdraw_params(input_data) ==
  LET params_data == SubSeq(input_data, 5, Len(input_data))
  IN IF decodable(params_data)
     THEN [k \in {"id", "trader", "amount", "v", "r", "s"} |->
             CASE k = "id" -> big_endian(SubSeq(params_data, 1, 32))
               [] k = "trader" -> SubSeq(params_data, 45, 64)
               [] k = "amount" -> big_endian(SubSeq(params_data, 65, 96))
               [] k = "v" -> big_endian(SubSeq(params_data, 97, 128))
               [] k = "r" -> SubSeq(params_data, 129, 160)
               [] k = "s" -> SubSeq(params_data, 161, 192)]
     ELSE NoParams

\* chunk_end without the min(): the last request runs past current_block
chunk_end_unclamped(from, current) == from + max_blocks_per_request - 1

\* chunk_end = min(chunk_start + max_blocks_per_request - 1, current_block)
chunk_end(from, current) ==
  Min(from + max_blocks_per_request - 1, current)

\* chunk_requests with the loop test after the body: one request is issued
\* even when the range is empty
RECURSIVE chunk_requests_do_while(_, _)
chunk_requests_do_while(from, current) ==
  <<[fromBlock |-> from, toBlock |-> chunk_end(from, current)]>>
  \o (IF from + max_blocks_per_request >= current + 1 THEN <<>>
      ELSE chunk_requests_do_while(from + max_blocks_per_request, current))

\* the (fromBlock, toBlock) pairs of the for loop over
\* range(start_block, current_block + 1, max_blocks_per_request)
RECURSIVE chunk_requests(_, _)
chunk_requests(from, current) ==
  IF from >= current + 1 THEN <<>>
  ELSE <<[fromBlock |-> from, toBlock |-> chunk_end(from, current)]>>
       \o chunk_requests(from + max_blocks_per_request, current)

\* start_block_of when a chain without a cursor is scanned from the first
\* block
start_block_of_genesis(c, current) ==
  IF c \in DOMAIN last_processed_blocks
  THEN last_processed_blocks[c] + 1
  ELSE 0

\* start_block when the caller passes none
start_block_of(c, current) ==
  IF c \in DOMAIN last_processed_blocks
  THEN last_processed_blocks[c] + 1
  ELSE current - InitialBlockRange

\* all_logs after the requests reqs[1..n] succeeded
all_logs_of(c, reqs, n) ==
  UNION {get_logs(c, reqs[i].fromBlock, reqs[i].toBlock) : i \in 1..n}

\* tx_hashes without the set(): one list entry per log entry
tx_hashes_per_log(all_logs) ==
  {[hash |-> log.transactionHash, entry |-> log.logIndex] : log \in all_logs}

\* tx_hashes = list(set(log.transactionHash.hex() for log in all_logs)), as
\* the set of its entries: entry numbers the occurrences of a hash in the
\* list
tx_hashes(all_logs) ==
  {[hash |-> h, entry |-> 1] : h \in {log.transactionHash : log \in all_logs}}

\* the dict the loop over tx_hashes appends for the list entry e
tx_data_of(e) ==
  LET tx == get_transaction(e.hash)
  IN [chain |-> tx.chain, hash |-> e.hash, block_number |-> tx.block_number,
      receipt_status |-> tx.receipt_status, input |-> tx.input,
      timestamp |-> tx.timestamp, entry |-> e.entry]

\* transactions_returned without the outer except: the logs of the requests
\* that succeeded are resolved although a later request raised
transactions_returned_partial(all_logs, logs_failed, fetch_failed) ==
  {tx_data_of(e) : e \in {x \in tx_hashes(all_logs) :
                            /\ x.hash \notin fetch_failed
                            /\ is_withdraw_function(
                                 get_transaction(x.hash).input)}}

\* The list get_recent_transactions returns: nothing when a get_logs call
\* raised (the outer except), else the withdraw calls among the logged
\* transactions whose get_transaction / get_block did not raise.
transactions_returned(all_logs, logs_failed, fetch_failed) ==
  IF logs_failed THEN {}
  ELSE {tx_data_of(e) : e \in {x \in tx_hashes(all_logs) :
                                 /\ x.hash \notin fetch_failed
                                 /\ is_withdraw_function(
                                      get_transaction(x.hash).input)}}

NoScan == [chain |-> "", had_cursor |-> FALSE, before |-> 0, start_block |-> 0,
           current_block |-> 0, requests |-> <<>>, logs_failed |-> FALSE,
           logged |-> {}, fetch_failed |-> {}]

\* create_transaction_object with status taken from the receipt's 'failed'
\* entry (receipt.status == 0)
create_transaction_object_failed(c, tx_data) ==
  [hash |-> tx_data.hash, block_number |-> tx_data.block_number,
   status |-> (tx_data.receipt_status = 0), chain |-> c,
   decoded_params |-> decode_withdraw_params(tx_data.input),
   timestamp |-> tx_data.timestamp]

\* create_transaction_object(chain_name, tx_data, receipt); the receipt is
\* the one the ledger holds for tx_data's hash
create_transaction_object(c, tx_data) ==
  [hash |-> tx_data.hash, block_number |-> tx_data.block_number,
   status |-> (tx_data.receipt_status = 1), chain |-> c,
   decoded_params |-> decode_withdraw_params(tx_data.input),
   timestamp |-> tx_data.timestamp]

(* ------------------------- WithdrawalMonitor -------------------------- *)
NoFile == [exists |-> FALSE]

\* no monitor_withdrawals call is under way or has just returned
NoPass == [processed |-> {}, ledger |-> [c \in ChainSet |-> 0]]

\* _load_processed_transactions: FileNotFoundError leaves the empty set
load_processed_transactions(f) ==
  IF f.exists THEN f.data ELSE [tracked |-> {}, others |-> 0]

\* _load_daily_transactions
load_daily_transactions(f) ==
  IF f.exists THEN f.data ELSE [c \in ChainSet |-> <<>>]

processed_size(p) == Cardinality(p.tracked) + p.others

\* What an earlier run of the program can have left on disk: nothing, or a
\* processed set one short of the limit that holds h2, with h2's event in the
\* daily file.
PersistedStates ==
  { [processed |-> NoFile, daily |-> NoFile],
    [processed |->
       [exists |-> TRUE,
        data |-> [tracked |-> {"h2"}, others |-> processed_limit - 2]],
     daily |->
       [exists |-> TRUE,
        data |-> [c \in ChainSet |->
                   IF c = "a"
                   THEN <<create_transaction_object(
                            "a", CHOOSE t \in Txs : t.hash = "h2")>>
                   ELSE <<>>]]] }

\* WithdrawalMonitor.__init__ and BlockchainMonitor.__init__ with one of
\* the given pairs of files on disk; _setup_web3_instances connects to one
\* of the given sets of chains
StartedWith(files, connections) ==
  /\ web3_instances \in connections
  /\ pass_start = NoPass
  /\ pc = "idle"
  /\ chainIdx = 1
  /\ last_processed_blocks = [c \in {} |-> 0]
  /\ \E f \in files :
       /\ file_processed = f.processed
       /\ file_daily = f.daily
  /\ processed_transactions = load_processed_transactions(file_processed)
  /\ daily_transactions = load_daily_transactions(file_daily)
  /\ loaded = processed_transactions.tracked
  /\ recent = {}
  /\ all_transactions = <<>>
  /\ scan = NoScan
  /\ alerts = [h \in Hashes |-> 0]
  /\ pass_alerts = <<>>
  /\ now = 2 * seconds_per_day
  /\ cycles = 0
  /\ faults = 0
  /\ ticks = 0
  /\ receipt_unavailable = {}
  /\ notify_failed = {}

\* the same with every chain connected
Started(files) == StartedWith(files, {ChainSet})

MainInit == Started(PersistedStates)

ChunkIdle ==
  /\ start_block = 0
  /\ current_block = 0
  /\ chunk_start = 0
  /\ requests = <<>>

NoQuery == [kind |-> "none"]

StatsIdle ==
  /\ query = NoQuery
  /\ stats = [c \in ChainSet |-> <<>>]

MatcherIdle ==
  /\ tx_input = <<>>
  /\ matched = <<>>
  /\ transactions = <<>>

NotifierIdle ==
  /\ last_balance_alerts = [k \in {} |-> 0]
  /\ alert_calls = <<>>

CodecIdle == starts = 1

Running == [kind |-> "running"]

RetryIdle ==
  /\ max_retries = 3
  /\ backoff_factor = 2
  /\ attempt = 0
  /\ invocations = <<>>
  /\ sleeps = <<>>
  /\ wrapper_result = Running

LimiterIdle ==
  /\ max_calls = 1
  /\ time_window = 1
  /\ calls = <<>>
  /\ answers = <<>>

UtilityIdle == NotifierIdle /\ CodecIdle /\ RetryIdle /\ LimiterIdle

Init == MainInit /\ ChunkIdle /\ StatsIdle /\ MatcherIdle /\ UtilityIdle

(* ------------------------------ actions ------------------------------- *)
\* run_single_check enters monitor_withdrawals, in a run of at most limit
\* cycles
run_single_check_within(limit) ==
  /\ pc = "idle"
  /\ cycles < limit
  /\ pc' = "chains"
  /\ chainIdx' = 1
  /\ all_transactions' = <<>>
  /\ pass_alerts' = <<>>
  /\ cycles' = cycles + 1
  /\ pass_start' = [processed |-> processed_transactions.tracked,
                    ledger |-> [c \in ChainSet |->
                                 Len(daily_transactions[c])]]
  /\ UNCHANGED <<last_processed_blocks, processed_transactions,
                 daily_transactions, file_processed, file_daily, recent,
                 scan, alerts, now, faults, ticks, loaded, outcome_vars,
                 aux_vars, web3_instances>>

run_single_check == run_single_check_within(MaxCycles)

\* after_pass when the error of a chain leaves the for loop over the chains
after_pass_abort(i, failed) == IF failed THEN Len(Chains) + 1 ELSE i + 1

\* The index of the chain monitor_withdrawals turns to after chain i:
\* get_recent_transactions catches its errors and returns [], and the
\* except clause of the for loop continues, so a failed pass is followed by
\* the next chain like any other.
after_pass(i, failed) == i + 1

\* connected when the test is left out
connected_always(c, instances) == TRUE

\* "chain_name in self.web3_instances"
connected(c, instances) == c \in instances

\* get_recent_transactions(chain_name) for a chain without a Web3 instance:
\* the error is logged and [] returned before anything else is looked at.
get_recent_transactions_not_connected ==
  /\ pc = "chains" /\ recent = {} /\ chainIdx <= Len(Chains)
  /\ ~connected(Chains[chainIdx], web3_instances)
  /\ chainIdx' = after_pass(chainIdx, FALSE)
  /\ scan' = [NoScan EXCEPT !.chain = Chains[chainIdx]]
  /\ UNCHANGED <<pc, last_processed_blocks, processed_transactions,
                 daily_transactions, file_processed, file_daily, recent,
                 all_transactions, alerts, pass_alerts, now, cycles, faults,
                 ticks, loaded, outcome_vars, aux_vars, web3_instances,
                 pass_start>>

\* get_recent_transactions(chain_name) when w3.eth.block_number raises: the
\* outermost except returns [] and nothing else happened.
get_recent_transactions_unreachable ==
  /\ pc = "chains" /\ recent = {} /\ chainIdx <= Len(Chains)
  /\ connected(Chains[chainIdx], web3_instances)
  /\ faults < MaxFaults
  /\ faults' = faults + 1
  /\ chainIdx' = after_pass(chainIdx, TRUE)
  /\ scan' = [NoScan EXCEPT !.chain = Chains[chainIdx]]
  /\ UNCHANGED <<pc, last_processed_blocks, processed_transactions,
                 daily_transactions, file_processed, file_daily, recent,
                 all_transactions, alerts, pass_alerts, now, cycles, ticks,
                 loaded, outcome_vars,
                 aux_vars,
                 web3_instances, pass_start>>

\* get_recent_transactions(chain_name): the ledger reports current_block,
\* one of heights; the cursor is set; the chunked get_logs requests are
\* issued until one raises (fail_at, 0 for none); each logged transaction is
\* fetched (fetch_failed: the hashes whose get_transaction or get_block
\* raised).
get_recent_transactions_at(heights) ==
  /\ pc = "chains" /\ recent = {} /\ chainIdx <= Len(Chains)
  /\ connected(Chains[chainIdx], web3_instances)
  /\ LET c == Chains[chainIdx] IN
     \E current \in heights :
       LET start == start_block_of(c, current)
           reqs == chunk_requests(start, current)
       IN \E fail_at \in 0..Len(reqs) :
            LET n_ok == IF fail_at = 0 THEN Len(reqs) ELSE fail_at - 1
                issued == IF fail_at = 0 THEN reqs ELSE SubSeq(reqs, 1, fail_at)
                all_logs == all_logs_of(c, reqs, n_ok)
            IN \E fetch_failed \in
                    (IF fail_at = 0
                     THEN SUBSET {e.hash : e \in tx_hashes(all_logs)}
                     ELSE {{}}) :
                 /\ (IF fail_at = 0 THEN 0 ELSE 1) + Cardinality(fetch_failed)
                      <= MaxFaults - faults
                 /\ faults' = faults + (IF fail_at = 0 THEN 0 ELSE 1)
                                     + Cardinality(fetch_failed)
                 /\ last_processed_blocks' =
                      [d \in DOMAIN last_processed_blocks \cup {c} |->
                         IF d = c THEN current
                         ELSE last_processed_blocks[d]]
                 /\ recent' = transactions_returned(all_logs, fail_at # 0,
                                                    fetch_failed)
                 /\ scan' = [chain |-> c,
                             had_cursor |-> c \in DOMAIN last_processed_blocks,
                             before |-> IF c \in DOMAIN last_processed_blocks
                                        THEN last_processed_blocks[c] ELSE 0,
                             start_block |-> start,
                             current_block |-> current,
                             requests |-> issued,
                             logs_failed |-> fail_at # 0,
                             logged |-> {e.hash :
                                           e \in tx_hashes(all_logs)},
                             fetch_failed |-> fetch_failed]
                 /\ chainIdx' = after_pass(chainIdx, fail_at # 0)
  /\ UNCHANGED <<pc, processed_transactions, daily_transactions,
                 file_processed, file_daily, all_transactions, alerts,
                 pass_alerts, now, cycles, ticks, loaded, outcome_vars,
                 aux_vars,
                 web3_instances, pass_start>>

get_recent_transactions == get_recent_transactions_at(Heights)

\* already_processed with a set kept per chain: the hash counts as processed
\* only where the chain being scanned has an event for it
already_processed_on_chain(tx_data) ==
  /\ tx_data.hash \in processed_transactions.tracked
  /\ \E i \in 1..Len(daily_transactions[scan.chain]) :
       daily_transactions[scan.chain][i].hash = tx_data.hash

\* whether the loop body of monitor_withdrawals skips tx_data
already_processed(tx_data) == tx_data.hash \in processed_transactions.tracked

\* skipped without the test of the receipt
skipped_only_if_processed(tx_data, receipt_found) ==
  already_processed(tx_data)

\* whether the loop body leaves tx_data with one of its two "continue":
\* the hash is in processed_transactions, or the receipt is None
skipped(tx_data, receipt_found) ==
  already_processed(tx_data) \/ ~receipt_found

\* alert_needed without the status test
alert_every_transaction(transaction) == TRUE

\* whether the loop body calls send_failed_withdrawal_alert
alert_needed(transaction) == ~transaction.status

\* what send_failed_withdrawal_alert can do: return True, return False
\* (send_message caught the error), or raise
AlertOutcomes == {"sent", "false", "raised"}

\* remaining_after_alert without the try around the alert: the exception
\* reaches the except clause of the chain and the rest of its list is left
remaining_unless_raised(remaining, outcome) ==
  IF outcome = "raised" THEN {} ELSE remaining

\* The candidates of the chain still to be iterated after the alert for one
\* of them: the return value is not looked at and an exception is caught
\* and logged.
remaining_after_alert(remaining, outcome) == remaining

\* result_after for the failed withdrawals only
result_after_if_failed(result, transaction) ==
  IF transaction.status THEN result ELSE Append(result, transaction)

\* all_transactions.append(transaction)
result_after(result, transaction) == Append(result, transaction)

\* One iteration of "for tx_data in recent_transactions" (the list comes from
\* a set of hashes, so its order is arbitrary).  receipt_found: whether
\* get_transaction_receipt, when it is called, returned a receipt rather
\* than None.  outcome: what send_failed_withdrawal_alert did, when it is
\* called.
process_transaction ==
  /\ pc = "chains"
  /\ \E tx_data \in recent :
     \E receipt_found \in (IF already_processed(tx_data) THEN {TRUE}
                           ELSE BOOLEAN) :
       LET c == scan.chain
           transaction == create_transaction_object(c, tx_data)
           resolved == ~skipped(tx_data, receipt_found)
           alerted == resolved /\ alert_needed(transaction)
       IN \E outcome \in (IF alerted THEN AlertOutcomes ELSE {"sent"}) :
          LET failures == (IF receipt_found THEN 0 ELSE 1)
                          + (IF outcome = "sent" THEN 0 ELSE 1)
          IN
          /\ failures <= MaxFaults - faults
          /\ faults' = faults + failures
          /\ receipt_unavailable' =
               IF receipt_found THEN receipt_unavailable
               ELSE receipt_unavailable \cup {tx_data.hash}
          /\ notify_failed' =
               IF outcome = "sent" THEN notify_failed
               ELSE notify_failed \cup {tx_data.hash}
          /\ IF resolved
             THEN /\ all_transactions' = result_after(all_transactions,
                                                     transaction)
                  /\ processed_transactions' =
                       [processed_transactions EXCEPT
                          !.tracked = @ \cup {tx_data.hash}]
                  /\ daily_transactions' =
                       [daily_transactions EXCEPT
                          ![c] = Append(@, transaction)]
             ELSE UNCHANGED <<all_transactions, processed_transactions,
                              daily_transactions>>
          /\ IF alerted
             THEN /\ alerts' = [alerts EXCEPT ![tx_data.hash] = @ + 1]
                  /\ pass_alerts' = Append(pass_alerts, tx_data.hash)
                  /\ recent' = remaining_after_alert(recent \ {tx_data},
                                                     outcome)
             ELSE /\ UNCHANGED <<alerts, pass_alerts>>
                  /\ recent' = recent \ {tx_data}
  /\ UNCHANGED <<pc, chainIdx, last_processed_blocks, file_processed,
                 file_daily, scan, now, cycles, ticks, loaded, aux_vars,
                 web3_instances, pass_start>>

\* saved when the dump is left out: the file stays as it was
not_saved(f, data, written) == f

\* what a json.dump of data leaves in file f (written: no I/O error)
saved(f, data, written) ==
  IF written THEN [exists |-> TRUE, data |-> data] ELSE f

\* after_save when the save methods do not catch: the I/O error reaches
\* the except clause of run_single_check and the rest of the cycle is left
after_save_uncaught(next, written) == IF written THEN next ELSE "idle"

\* Where monitor_withdrawals goes on after a save: both save methods catch
\* every exception and log it, so the next statement follows either way.
after_save(next, written) == next

\* _save_processed_transactions at the end of monitor_withdrawals
save_processed_transactions ==
  /\ pc = "chains" /\ recent = {} /\ chainIdx > Len(Chains)
  /\ \E written \in BOOLEAN :
       /\ written \/ faults < MaxFaults
       /\ faults' = IF written THEN faults ELSE faults + 1
       /\ file_processed' =
            saved(file_processed, processed_transactions, written)
       /\ pc' = after_save("save_daily", written)
  /\ scan' = NoScan
  /\ UNCHANGED <<chainIdx, last_processed_blocks, processed_transactions,
                 daily_transactions, file_daily, recent, all_transactions,
                 alerts, pass_alerts, now, cycles, ticks, loaded, outcome_vars,
                 aux_vars,
                 web3_instances, pass_start>>

\* _save_daily_transactions, then monitor_withdrawals returns
save_daily_transactions ==
  /\ pc = "save_daily"
  /\ \E written \in BOOLEAN :
       /\ written \/ faults < MaxFaults
       /\ faults' = IF written THEN faults ELSE faults + 1
       /\ file_daily' = saved(file_daily, daily_transactions, written)
       /\ pc' = after_save("cleanup", written)
  /\ UNCHANGED <<chainIdx, last_processed_blocks, processed_transactions,
                 daily_transactions, file_processed, recent, all_transactions,
                 scan, alerts, pass_alerts, now, cycles, ticks, loaded,
                 outcome_vars, aux_vars,
                 web3_instances, pass_start>>

\* the list comprehension of cleanup_old_data
RECURSIVE keep_recent(_, _)
keep_recent(tx_list, cutoff_time) ==
  IF tx_list = <<>> THEN <<>>
  ELSE (IF Head(tx_list).timestamp > cutoff_time THEN <<Head(tx_list)>>
        ELSE <<>>) \o keep_recent(Tail(tx_list), cutoff_time)

\* the values set(list(processed_transactions)[-5000:]) can take: a set
\* iterates in no particular order, so any processed_keep of its elements
truncated(p) ==
  IF processed_size(p) > processed_limit
  THEN {[tracked |-> K, others |-> processed_keep - Cardinality(K)] :
          K \in {S \in SUBSET p.tracked :
                   /\ Cardinality(S) <= processed_keep
                   /\ processed_keep - Cardinality(S) <= p.others}}
  ELSE {p}

\* the rest of run_single_check: cleanup_old_data when any chain has a list
cleanup_old_data ==
  /\ pc = "cleanup"
  /\ pc' = "idle"
  /\ IF \E c \in ChainSet : daily_transactions[c] # <<>>
     THEN /\ daily_transactions' =
               [c \in ChainSet |->
                  keep_recent(daily_transactions[c],
                              now - days_to_keep * seconds_per_day)]
          /\ IF processed_size(processed_transactions) > processed_limit
             THEN \E p \in truncated(processed_transactions),
                     written \in BOOLEAN :
                    /\ written \/ faults < MaxFaults
                    /\ faults' = IF written THEN faults ELSE faults + 1
                    /\ processed_transactions' = p
                    /\ file_processed' = saved(file_processed, p, written)
             ELSE UNCHANGED <<processed_transactions, file_processed, faults>>
     ELSE UNCHANGED <<daily_transactions, processed_transactions,
                      file_processed, faults>>
  /\ all_transactions' = <<>>
  /\ pass_alerts' = <<>>
  /\ chainIdx' = 1
  /\ pass_start' = NoPass
  /\ UNCHANGED <<last_processed_blocks, file_daily, recent, scan, alerts, now,
                 cycles, ticks, loaded, outcome_vars, aux_vars,
                 web3_instances>>

\* The process dies at any point and is started again: WithdrawalMonitor and
\* BlockchainMonitor are constructed anew from the two files, and
\* _setup_web3_instances connects to one of the given sets of chains.
crash_restart_connecting(connections) ==
  /\ web3_instances' \in connections
  /\ faults < MaxFaults
  /\ faults' = faults + 1
  /\ pc' = "idle"
  /\ chainIdx' = 1
  /\ last_processed_blocks' = [c \in {} |-> 0]
  /\ processed_transactions' = load_processed_transactions(file_processed)
  /\ daily_transactions' = load_daily_transactions(file_daily)
  /\ recent' = {}
  /\ all_transactions' = <<>>
  /\ pass_alerts' = <<>>
  /\ scan' = NoScan
  /\ pass_start' = NoPass
  /\ loaded' = load_processed_transactions(file_processed).tracked
  /\ UNCHANGED <<file_processed, file_daily, alerts, now, cycles, ticks,
                 outcome_vars, aux_vars>>

\* the same with every chain connected again
crash_restart == crash_restart_connecting({ChainSet})

\* The days that pass between two cycles: after 6 the oldest event of the
\* ledger is exactly days_to_keep days old, after 7 it is older.
TickDays == {6, 7}

\* time passes between two cycles
tick ==
  /\ pc = "idle"
  /\ ticks < MaxTicks
  /\ ticks' = ticks + 1
  /\ \E d \in TickDays : now' = now + d * seconds_per_day
  /\ UNCHANGED <<pc, chainIdx, last_processed_blocks, processed_transactions,
                 daily_transactions, file_processed, file_daily, recent,
                 all_transactions, scan, alerts, pass_alerts, cycles, faults,
                 loaded, outcome_vars,
                 aux_vars,
                 web3_instances, pass_start>>

Next ==
  \/ run_single_check
  \/ get_recent_transactions_unreachable
  \/ get_recent_transactions
  \/ process_transaction
  \/ save_processed_transactions
  \/ save_daily_transactions
  \/ cleanup_old_data
  \/ crash_restart
  \/ tick

Spec == Init /\ [][Next]_vars

\* The runs in which the wall clock stands still: requests and writes fail
\* and the process crashes, and nothing gets old enough to be pruned.
FaultsNext ==
  \/ run_single_check
  \/ get_recent_transactions_unreachable
  \/ get_recent_transactions
  \/ process_transaction
  \/ save_processed_transactions
  \/ save_daily_transactions
  \/ cleanup_old_data
  \/ crash_restart

SpecFaults == Init /\ [][FaultsNext]_vars

\* What a run leaves on disk once every event it recorded has aged out:
\* cleanup_old_data emptied the ledger, the next _save_daily_transactions
\* wrote it, and the processed set (never pruned by age) is one short of
\* the limit.
AgedPersisted ==
  { [processed |->
       [exists |-> TRUE,
        data |-> [tracked |-> {"h2"}, others |-> processed_limit - 2]],
     daily |-> [exists |-> TRUE, data |-> [c \in ChainSet |-> <<>>]]] }

AgedInit ==
  /\ Started(AgedPersisted)
  /\ ChunkIdle /\ StatsIdle /\ MatcherIdle /\ UtilityIdle

\* The runs of SpecFaults that start from a ledger file without events.
SpecAged == AgedInit /\ [][FaultsNext]_vars

\* The runs in which no request fails, no write fails and the process does
\* not crash.
ReliableNext ==
  \/ run_single_check
  \/ get_recent_transactions /\ faults' = faults
  \/ process_transaction /\ faults' = faults
  \/ save_processed_transactions /\ faults' = faults
  \/ save_daily_transactions /\ faults' = faults
  \/ cleanup_old_data /\ faults' = faults
  \/ tick

SpecReliable == Init /\ [][ReliableNext]_vars

\* What a run leaves on disk that recorded, on chain a, a transaction with
\* the hash h3 has on chain b (one transaction replayed on two chains); the
\* transaction of chain a lies below every range scanned from here on.
SharedPersisted ==
  { [processed |->
       [exists |-> TRUE, data |-> [tracked |-> {"h3"}, others |-> 0]],
     daily |->
       [exists |-> TRUE,
        data |-> [c \in ChainSet |->
                   IF c = "a"
                   THEN <<[hash |-> "h3", block_number |-> 100,
                           status |-> FALSE, chain |-> "a",
                           decoded_params |->
                             decode_withdraw_params(BadPaddingCall),
                           timestamp |-> 2 * seconds_per_day]>>
                   ELSE <<>>]]] }

SharedInit ==
  /\ Started(SharedPersisted)
  /\ ChunkIdle /\ StatsIdle /\ MatcherIdle /\ UtilityIdle

\* The runs of SpecFaults in which a hash recorded for chain a surfaces on
\* chain b.
SpecShared == SharedInit /\ [][FaultsNext]_vars

\* The process can start with any of the chains not connected.
StartupInit ==
  /\ StartedWith({[processed |-> NoFile, daily |-> NoFile]}, SUBSET ChainSet)
  /\ ChunkIdle /\ StatsIdle /\ MatcherIdle /\ UtilityIdle

\* The runs in which connections fail at startup (and at every restart) and
\* nothing else does.
StartupNext ==
  \/ run_single_check
  \/ get_recent_transactions_not_connected
  \/ get_recent_transactions /\ faults' = faults
  \/ process_transaction /\ faults' = faults
  \/ save_processed_transactions /\ faults' = faults
  \/ save_daily_transactions /\ faults' = faults
  \/ cleanup_old_data /\ faults' = faults
  \/ crash_restart_connecting(SUBSET ChainSet)

SpecStartup == StartupInit /\ [][StartupNext]_vars

\* Heights reported when the node that answers lags behind the one that
\* answered before.
LaggingHeights == Heights \cup {h - 100 : h \in Heights}

\* The runs of one process, one cycle longer, against nodes that lag: no
\* request and no write fails, a receipt can be unavailable and the notifier
\* can fail.
LaggingNext ==
  \/ run_single_check_within(MaxCycles + 1)
  \/ get_recent_transactions_at(LaggingHeights) /\ faults' = faults
  \/ process_transaction
  \/ save_processed_transactions /\ faults' = faults
  \/ save_daily_transactions /\ faults' = faults
  \/ cleanup_old_data /\ faults' = faults

SpecLagging == Init /\ [][LaggingNext]_vars

(* ------------------ the chunk loop on its own (SpecChunk) ------------- *)
\* Block numbers around the multiples of max_blocks_per_request.
ChunkBlocks ==
  {b \in {k * max_blocks_per_request + d :
            k \in 0..ChunkSpan, d \in {0 - 1, 0, 1, 100, 199}} : b >= 0}

ChunkInit ==
  /\ MainInit
  /\ StatsIdle
  /\ MatcherIdle
  /\ UtilityIdle
  /\ file_processed = NoFile
  /\ start_block \in ChunkBlocks
  /\ current_block \in ChunkBlocks
  /\ chunk_start = start_block
  /\ requests = <<>>

\* one iteration of
\* "for chunk_start in range(start_block, current_block + 1, 500)"
chunk_loop ==
  /\ chunk_start < current_block + 1
  /\ requests' = Append(requests,
                        [fromBlock |-> chunk_start,
                         toBlock |-> chunk_end(chunk_start, current_block)])
  /\ chunk_start' = chunk_start + max_blocks_per_request
  /\ UNCHANGED <<start_block, current_block, main_vars, stats_vars,
                 matcher_vars, utility_vars>>

ChunkNext == chunk_loop

SpecChunk == ChunkInit /\ [][ChunkNext]_vars

(* ------------- the statistics queries on their own (SpecStats) -------- *)
\* Instants at the last second of a day and the first second of the next.
StatsTimes ==
  {d * seconds_per_day - 1 : d \in 1..(StatsDays + 1)}
  \cup {d * seconds_per_day : d \in 1..StatsDays}

\* Transaction objects an earlier run can have recorded for chain c: the
\* transactions of the chain, in a block of any of the instants
StatsEvents(c) ==
  {[create_transaction_object(c, t) EXCEPT !.timestamp = ts] :
     t \in {u \in Txs : u.chain = c /\ is_withdraw_function(u.input)},
     ts \in StatsTimes}

RECURSIVE SeqsUpTo(_, _)
SeqsUpTo(S, n) ==
  IF n = 0 THEN {<<>>}
  ELSE LET shorter == SeqsUpTo(S, n - 1)
       IN shorter \cup {Append(q, e) : q \in shorter, e \in S}

\* daily_transactions.json as earlier runs can have left it
StatsPersisted ==
  {[processed |-> NoFile,
    daily |-> [exists |-> TRUE,
               data |-> [c \in ChainSet |->
                          IF c = "a" THEN la ELSE lb]]] :
     la \in SeqsUpTo(StatsEvents("a"), StatsLedgerLen),
     lb \in SeqsUpTo({e \in StatsEvents("b") :
                        e.timestamp = seconds_per_day}, 1)}

StatsInit ==
  /\ Started(StatsPersisted)
  /\ ChunkIdle /\ StatsIdle /\ MatcherIdle /\ UtilityIdle

\* date_of in a time zone one hour east of UTC
date_of_local(timestamp) == (timestamp + 3600) \div seconds_per_day

\* tx.timestamp.date(), date.date(): the UTC calendar day of an instant
date_of(timestamp) == timestamp \div seconds_per_day

\* in_period with the end of the window excluded
in_period_end_exclusive(tx, start_time, end_time) ==
  start_time <= tx.timestamp /\ tx.timestamp < end_time

\* the filter of get_daily_statistics_for_period
in_period(tx, start_time, end_time) ==
  start_time <= tx.timestamp /\ tx.timestamp <= end_time

\* the filter of get_daily_statistics
on_date(tx, date) == date_of(tx.timestamp) = date_of(date)

\* the dict listed for a transaction (decoded_params and explorer_url are
\* not modelled)
listed(tx) ==
  [hash |-> tx.hash, block_number |-> tx.block_number,
   timestamp |-> tx.timestamp]

\* stats[chain_name] for the selected transactions of a chain
chain_statistics(selected) ==
  LET successful_transactions == SelectSeq(selected, LAMBDA tx : tx.status)
      failed_transactions == SelectSeq(selected, LAMBDA tx : ~tx.status)
  IN [successful_withdrawals |-> Len(successful_transactions),
      failed_withdrawals |-> Len(failed_transactions),
      total_withdrawals |-> Len(selected),
      successful_transactions |->
        [i \in 1..Len(successful_transactions) |->
           listed(successful_transactions[i])],
      failed_transactions |->
        [i \in 1..Len(failed_transactions) |->
           listed(failed_transactions[i])]]

\* what get_daily_statistics_for_period returns
statistics_for_period(ledger, start_time, end_time) ==
  [c \in ChainSet |->
     chain_statistics(
       SelectSeq(ledger[c], LAMBDA tx : in_period(tx, start_time, end_time)))]

\* what get_daily_statistics returns
statistics_for_date(ledger, date) ==
  [c \in ChainSet |->
     chain_statistics(SelectSeq(ledger[c], LAMBDA tx : on_date(tx, date)))]

\* ledger_after_statistics when the selection is assigned back to
\* self.daily_transactions, as cleanup_old_data does with its own
ledger_filtered_in_place(ledger, selection) == selection

\* self.daily_transactions after a statistics call: the comprehensions
\* build new lists (selection) and .get() adds no key
ledger_after_statistics(ledger, selection) == ledger

get_daily_statistics_for_period ==
  \E start_time \in StatsTimes, end_time \in StatsTimes :
    /\ query' = [kind |-> "period", start_time |-> start_time,
                 end_time |-> end_time]
    /\ stats' = statistics_for_period(daily_transactions, start_time,
                                      end_time)
    /\ daily_transactions' =
         ledger_after_statistics(
           daily_transactions,
           [c \in ChainSet |->
              SelectSeq(daily_transactions[c],
                        LAMBDA tx : in_period(tx, start_time, end_time))])
    /\ UNCHANGED <<pc, chainIdx, last_processed_blocks,
                   processed_transactions, file_processed, file_daily,
                   recent, all_transactions, scan, alerts, pass_alerts,
                   loaded, now, cycles, faults, ticks, outcome_vars,
                   chunk_vars, matcher_vars, utility_vars,
                   web3_instances, pass_start>>

get_daily_statistics ==
  \E date \in StatsTimes :
    /\ query' = [kind |-> "date", date |-> date]
    /\ stats' = statistics_for_date(daily_transactions, date)
    /\ daily_transactions' =
         ledger_after_statistics(
           daily_transactions,
           [c \in ChainSet |->
              SelectSeq(daily_transactions[c],
                        LAMBDA tx : on_date(tx, date))])
    /\ UNCHANGED <<pc, chainIdx, last_processed_blocks,
                   processed_transactions, file_processed, file_daily,
                   recent, all_transactions, scan, alerts, pass_alerts,
                   loaded, now, cycles, faults, ticks, outcome_vars,
                   chunk_vars, matcher_vars, utility_vars,
                   web3_instances, pass_start>>

StatsNext ==
  \/ get_daily_statistics_for_period
  \/ get_daily_statistics

SpecStats == StatsInit /\ [][StatsNext]_vars

(* ---- the loop body over tx_hashes for one transaction (SpecMatcher) --- *)
\* The bytes of the selector and one byte that is not in it.
MatcherBytes == {withdraw_selector[i] : i \in 1..4} \cup {0}

\* get_recent_transactions is about to look at a transaction whose input
\* is any string of at most MaxInputLen of these bytes
MatcherInit ==
  /\ MainInit
  /\ ChunkIdle
  /\ StatsIdle
  /\ UtilityIdle
  /\ file_processed = NoFile
  /\ tx_input \in SeqsUpTo(MatcherBytes, MaxInputLen)
  /\ matched = <<>>
  /\ transactions = <<>>

\* "if self._is_withdraw_function(tx.input): ... transactions.append({...})"
check_transaction ==
  /\ matched = <<>>
  /\ matched' = <<is_withdraw_function(tx_input)>>
  /\ transactions' =
       IF is_withdraw_function(tx_input)
       THEN Append(transactions, [input |-> tx_input])
       ELSE transactions
  /\ UNCHANGED <<tx_input, main_vars, chunk_vars, stats_vars, utility_vars>>

MatcherNext == check_transaction

SpecMatcher == MatcherInit /\ [][MatcherNext]_vars

(* ------- send_low_balance_alert on its own (SpecNotifier) ------------- *)
\* Names are strings of characters, written as sequences so that they can
\* be joined: the chains of the configuration and the token symbols
\* check_all_balances produces ('ETH' and token_symbol.upper()).
AlertChains == {<<"a">>, <<"b">>}
TokenSymbols == {<<"E", "T", "H">>, <<"U", "S", "D", "C">>}

\* The BalanceInfo objects check_all_balances can return (the fields the
\* alert path reads); is_below_threshold is balance < threshold.
BalanceInfos ==
  {[chain |-> c, token_symbol |-> t, balance |-> b, threshold |-> 10,
    is_below_threshold |-> (b < 10)] :
     c \in AlertChains, t \in TokenSymbols, b \in {5, 20}}

\* the seconds the clock can advance between two calls
WaitSeconds == {1, alert_cooldown_minutes * 60 - 1}

\* alert_key of the chain alone
alert_key_of_chain(balance_info) == balance_info.chain

\* alert_key = f"{balance_info.chain}_{balance_info.token_symbol}"
alert_key_of(balance_info) ==
  balance_info.chain \o <<"_">> \o balance_info.token_symbol

\* "if alert_key in self.last_balance_alerts" and
\* "(current_time - last).total_seconds() / 60 < alert_cooldown_minutes",
\* times in seconds
rate_limited(last_alerts, alert_key, current_time) ==
  /\ alert_key \in DOMAIN last_alerts
  /\ current_time - last_alerts[alert_key] < alert_cooldown_minutes * 60

\* last_balance_alerts_after with the time recorded once send_message has
\* returned True
last_alerts_if_delivered(last_alerts, alert_key, current_time, delivered) ==
  IF delivered
  THEN [k \in DOMAIN last_alerts \cup {alert_key} |->
          IF k = alert_key THEN current_time ELSE last_alerts[k]]
  ELSE last_alerts

\* self.last_balance_alerts after an accepted call: the assignment stands
\* before send_message, so it does not depend on what send_message returns
last_balance_alerts_after(last_alerts, alert_key, current_time, delivered) ==
  [k \in DOMAIN last_alerts \cup {alert_key} |->
     IF k = alert_key THEN current_time ELSE last_alerts[k]]

\* everything of the monitoring cycle but the clock and its counter
monitor_vars == <<pc, chainIdx, last_processed_blocks,
                  processed_transactions, daily_transactions,
                  file_processed, file_daily, recent, all_transactions,
                  scan, alerts, pass_alerts, loaded, receipt_unavailable,
                  notify_failed, cycles, faults, web3_instances,
                  pass_start>>

NotifierInit ==
  /\ MainInit
  /\ ChunkIdle
  /\ StatsIdle
  /\ MatcherIdle
  /\ UtilityIdle
  /\ file_processed = NoFile

\* One iteration of the loop of BalanceMonitor.send_low_balance_alerts for
\* a balance below its threshold: send_low_balance_alert(balance).
\* delivered: what send_message returns when it is called (False covers
\* every request error, which send_message catches).
send_low_balance_alert ==
  /\ Len(alert_calls) < MaxAlertCalls
  /\ \E balance_info \in BalanceInfos, delivered \in BOOLEAN :
       LET alert_key == alert_key_of(balance_info)
           current_time == now
       IN /\ balance_info.is_below_threshold
          /\ IF rate_limited(last_balance_alerts, alert_key, current_time)
             THEN /\ delivered
                  /\ alert_calls' =
                       Append(alert_calls,
                              [chain |-> balance_info.chain,
                               token_symbol |-> balance_info.token_symbol,
                               time |-> current_time, sent |-> FALSE,
                               returned |-> FALSE])
                  /\ UNCHANGED last_balance_alerts
             ELSE /\ last_balance_alerts' =
                       last_balance_alerts_after(last_balance_alerts,
                                                 alert_key, current_time,
                                                 delivered)
                  /\ alert_calls' =
                       Append(alert_calls,
                              [chain |-> balance_info.chain,
                               token_symbol |-> balance_info.token_symbol,
                               time |-> current_time, sent |-> TRUE,
                               returned |-> delivered])
  /\ UNCHANGED <<now, ticks, monitor_vars, chunk_vars, stats_vars,
                 matcher_vars, codec_vars, retry_vars, limiter_vars>>

\* time passes between two calls
wait ==
  /\ Len(alert_calls) < MaxAlertCalls
  /\ ticks < MaxWaits
  /\ ticks' = ticks + 1
  /\ \E d \in WaitSeconds : now' = now + d
  /\ UNCHANGED <<monitor_vars, chunk_vars, stats_vars, matcher_vars,
                 utility_vars>>

NotifierNext ==
  \/ send_low_balance_alert
  \/ wait

SpecNotifier == NotifierInit /\ [][NotifierNext]_vars

(* ------ the ledger file written and read back (SpecCodec) ------------- *)
\* A datetime in UTC is its number of seconds since the epoch; the block
\* timestamps it comes from are whole seconds.

\* isoformat to the minute (timespec='minutes')
isoformat_minutes(timestamp) ==
  [date |-> timestamp \div seconds_per_day,
   hour |-> (timestamp % seconds_per_day) \div 3600,
   minute |-> (timestamp % 3600) \div 60,
   second |-> 0,
   utcoffset |-> 0]

\* datetime.isoformat(): the text "<date>T<hh>:<mm>:<ss>+00:00", its parts
\* as a record (the date as its day number)
isoformat(timestamp) ==
  [date |-> timestamp \div seconds_per_day,
   hour |-> (timestamp % seconds_per_day) \div 3600,
   minute |-> (timestamp % 3600) \div 60,
   second |-> timestamp % 60,
   utcoffset |-> 0]

\* datetime.fromisoformat(text)
fromisoformat(text) ==
  text.date * seconds_per_day + text.hour * 3600 + text.minute * 60
  + text.second - text.utcoffset

\* the dict _save_daily_transactions builds for one Transaction (of the
\* fields that vary: contract_address, function_name and explorer_url are
\* strings copied as they are)
tx_data_saved(tx) ==
  [hash |-> tx.hash, block_number |-> tx.block_number, status |-> tx.status,
   chain |-> tx.chain, decoded_params |-> tx.decoded_params,
   timestamp |-> isoformat(tx.timestamp), gas_used |-> tx.gas_used]

\* the Transaction _load_daily_transactions recreates from such a dict
tx_loaded(tx_data) ==
  [hash |-> tx_data.hash, block_number |-> tx_data.block_number,
   status |-> tx_data.status, chain |-> tx_data.chain,
   decoded_params |-> tx_data.decoded_params,
   timestamp |-> fromisoformat(tx_data.timestamp),
   gas_used |-> tx_data.gas_used]

\* data['daily_transactions'] as _save_daily_transactions fills it
daily_transactions_saved(ledger) ==
  [c \in DOMAIN ledger |->
     [i \in 1..Len(ledger[c]) |-> tx_data_saved(ledger[c][i])]]

\* self.daily_transactions as _load_daily_transactions rebuilds it
daily_transactions_loaded(data) ==
  [c \in DOMAIN data |->
     [i \in 1..Len(data[c]) |-> tx_loaded(data[c][i])]]

\* Transaction objects a ledger can hold for chain c
CodecEvents(c) ==
  IF c = "a"
  THEN {[hash |-> h, block_number |-> 950, status |-> st, chain |-> c,
         decoded_params |-> decode_withdraw_params(WithdrawCall),
         timestamp |-> ts, gas_used |-> g] :
          h \in {"h1", "h2"}, st \in BOOLEAN,
          ts \in {seconds_per_day, 2 * seconds_per_day - 1},
          g \in {0, 21000}}
  ELSE {[hash |-> "h3", block_number |-> 1250, status |-> FALSE,
         chain |-> c, decoded_params |-> NoParams,
         timestamp |-> seconds_per_day + 3661, gas_used |-> 21000]}

\* The ledgers in memory: a dict from some of the chains to lists.
CodecLedgers ==
  {[c \in D |-> IF c = "a" THEN la ELSE lb] :
     D \in SUBSET ChainSet,
     la \in SeqsUpTo(CodecEvents("a"), CodecLedgerLen),
     lb \in SeqsUpTo(CodecEvents("b"), CodecLedgerLen - 1)}

CodecInit ==
  /\ MainInit
  /\ ChunkIdle
  /\ StatsIdle
  /\ MatcherIdle
  /\ UtilityIdle
  /\ file_processed = NoFile

\* the process has some ledger in memory
fill_ledger ==
  /\ ~file_daily.exists
  /\ cycles = 0
  /\ cycles' = 1
  /\ daily_transactions' \in CodecLedgers
  /\ UNCHANGED <<pc, chainIdx, last_processed_blocks, processed_transactions,
                 file_processed, file_daily, recent, all_transactions, scan,
                 alerts, pass_alerts, loaded, now, faults, ticks,
                 outcome_vars, aux_vars, web3_instances, pass_start>>

\* _save_daily_transactions, the file written without error
write_daily_file ==
  /\ cycles = 1
  /\ starts = 1
  /\ file_daily' =
       [exists |-> TRUE, data |-> daily_transactions_saved(daily_transactions)]
  /\ UNCHANGED <<pc, chainIdx, last_processed_blocks, processed_transactions,
                 daily_transactions, file_processed, recent,
                 all_transactions, scan, alerts, pass_alerts, loaded, now,
                 cycles, faults, ticks, outcome_vars, aux_vars,
                 web3_instances, pass_start>>

\* the process is started again: self.daily_transactions = {} and
\* _load_daily_transactions reads the file
read_daily_file ==
  /\ file_daily.exists
  /\ starts = 1
  /\ starts' = starts + 1
  /\ daily_transactions' = daily_transactions_loaded(file_daily.data)
  /\ UNCHANGED <<pc, chainIdx, last_processed_blocks, processed_transactions,
                 file_processed, file_daily, recent, all_transactions, scan,
                 alerts, pass_alerts, loaded, now, cycles, faults, ticks,
                 outcome_vars, chunk_vars, stats_vars, matcher_vars,
                 notifier_vars, retry_vars, limiter_vars, web3_instances,
                 pass_start>>

CodecNext ==
  \/ fill_ledger
  \/ write_daily_file
  \/ read_daily_file

SpecCodec == CodecInit /\ [][CodecNext]_vars

(* ------ one call of a retry_with_backoff wrapper (SpecRetry) ---------- *)
\* what a call of func can do: return a value or raise an exception (one of
\* the classes in exceptions, by default every Exception)
FuncOutcomes ==
  {[ok |-> TRUE, value |-> v] : v \in {"r1", "r2"}}
  \cup {[ok |-> FALSE, exception |-> e] : e \in {"e1", "e2"}}

\* the values of backoff_factor tried (2.0 is the default)
BackoffFactors == {1, 2, 3}

RetryInit ==
  /\ MainInit
  /\ ChunkIdle
  /\ StatsIdle
  /\ MatcherIdle
  /\ NotifierIdle
  /\ CodecIdle
  /\ LimiterIdle
  /\ file_processed = NoFile
  /\ max_retries \in 0..MaxRetries
  /\ backoff_factor \in BackoffFactors
  /\ attempt = 0
  /\ invocations = <<>>
  /\ sleeps = <<>>
  /\ wrapper_result = Running

\* is_last_attempt when the test is left out
is_last_attempt_never(n, retries) == FALSE

\* "if attempt == max_retries - 1"
is_last_attempt(n, retries) == n = retries - 1

\* One iteration of "for attempt in range(max_retries)": func is called and
\* its value returned; or its exception is raised again, on the last
\* attempt; or time.sleep(backoff_factor ** attempt) follows.
wrapper_attempt ==
  /\ wrapper_result = Running
  /\ attempt < max_retries
  /\ \E did \in FuncOutcomes :
       /\ invocations' = Append(invocations, did)
       /\ IF did.ok
          THEN /\ wrapper_result' = [kind |-> "returned", value |-> did.value]
               /\ UNCHANGED <<attempt, sleeps>>
          ELSE IF is_last_attempt(attempt, max_retries)
          THEN /\ wrapper_result' =
                    [kind |-> "raised", exception |-> did.exception]
               /\ UNCHANGED <<attempt, sleeps>>
          ELSE /\ sleeps' = Append(sleeps, backoff_factor ^ attempt)
               /\ attempt' = attempt + 1
               /\ UNCHANGED wrapper_result
  /\ UNCHANGED <<max_retries, backoff_factor, main_vars, chunk_vars,
                 stats_vars, matcher_vars, notifier_vars, codec_vars,
                 limiter_vars>>

\* the range is exhausted: "return None"
wrapper_exhausted ==
  /\ wrapper_result = Running
  /\ attempt >= max_retries
  /\ wrapper_result' = [kind |-> "returned", value |-> "None"]
  /\ UNCHANGED <<max_retries, backoff_factor, attempt, invocations, sleeps,
                 main_vars, chunk_vars, stats_vars, matcher_vars,
                 notifier_vars, codec_vars, limiter_vars>>

RetryNext ==
  \/ wrapper_attempt
  \/ wrapper_exhausted

\* func returns or raises whenever it is called, and time.sleep returns
SpecRetry == RetryInit /\ [][RetryNext]_vars /\ WF_vars(RetryNext)

(* ------------ a RateLimiter on its own (SpecLimiter) ------------------ *)
\* the arguments a RateLimiter is constructed with
LimiterMaxCalls == {0, 1, 2}
LimiterWindows == {2, 3}

\* the seconds time.time() can have advanced by when is_allowed reads it
LimiterSteps == {0, 1, 2, 3}

LimiterInit ==
  /\ MainInit
  /\ ChunkIdle
  /\ StatsIdle
  /\ MatcherIdle
  /\ NotifierIdle
  /\ CodecIdle
  /\ RetryIdle
  /\ file_processed = NoFile
  /\ max_calls \in LimiterMaxCalls
  /\ time_window \in LimiterWindows
  /\ calls = <<>>
  /\ answers = <<>>

\* recent_calls with the call made exactly time_window ago kept
recent_calls_inclusive(call_times, t, window) ==
  SelectSeq(call_times, LAMBDA call_time : t - call_time <= window)

\* [call_time for call_time in self.calls if now - call_time < time_window]
recent_calls(call_times, t, window) ==
  SelectSeq(call_times, LAMBDA call_time : t - call_time < window)

\* RateLimiter.is_allowed(), time.time() having advanced by d
is_allowed ==
  /\ Len(answers) < MaxLimiterCalls
  /\ \E d \in LimiterSteps :
       LET t == now + d
           kept == recent_calls(calls, t, time_window)
           allowed == Len(kept) < max_calls
       IN /\ now' = t
          /\ calls' = IF allowed THEN Append(kept, t) ELSE kept
          /\ answers' = Append(answers, [time |-> t, allowed |-> allowed])
  /\ UNCHANGED <<max_calls, time_window, ticks, monitor_vars, chunk_vars,
                 stats_vars, matcher_vars, notifier_vars, codec_vars,
                 retry_vars>>

LimiterNext == is_allowed

SpecLimiter == LimiterInit /\ [][LimiterNext]_vars

(* ------------------------------ claims -------------------------------- *)
\* the transactions whose log entries the requests of scan s returned
logged_transactions(s) == {get_transaction(h) : h \in s.logged}

Count(tx_list, h) ==
  Cardinality({i \in 1..Len(tx_list) : tx_list[i].hash = h})

\* the cursor of the chain of the last get_recent_transactions call is what
\* it was before the call
cursor_kept ==
  IF scan.had_cursor
  THEN /\ scan.chain \in DOMAIN last_processed_blocks
       /\ last_processed_blocks[scan.chain] = scan.before
  ELSE scan.chain \notin DOMAIN last_processed_blocks

\* C1: every hash in ProcessedSet appears at most once in each chain's
\* EventLedger (daily_transactions[chain]), whatever passes, restarts and
\* cleanup_old_data runs happened.
C1_LedgerAtMostOnce ==
  \A c \in ChainSet : \A h \in processed_transactions.tracked :
    Count(daily_transactions[c], h) <= 1

\* C2: when the process started with a persisted ProcessedSet containing H,
\* no scan pass appends an event for H or sends a failed-withdrawal alert
\* for H.
C2_NoReappendAfterRestart ==
  /\ \A i \in 1..Len(all_transactions) : all_transactions[i].hash \notin loaded
  /\ \A i \in 1..Len(pass_alerts) : pass_alerts[i] \notin loaded

\* C3: over any execution, crashes and restarts included, the
\* failed-withdrawal alert is sent at most once for a transaction hash.
C3_AlertAtMostOnce == \A h \in Hashes : alerts[h] <= 1

\* C4: when a get-logs sub-range query failed in a chain's pass, the chain's
\* ScanCursor has the value it had before the pass.
C4_CursorKeptOnLogFailure == scan.logs_failed => cursor_kept

\* C5: when fetching a candidate's transaction or block failed in a chain's
\* pass, the chain's ScanCursor is not advanced (so the block is scanned
\* again).
C5_CursorKeptOnFetchFailure == scan.fetch_failed # {} => cursor_kept

\* C6: a restart after a completed pass leaves every chain's ScanCursor at
\* the value it had at the end of that pass.
C6_CursorSurvivesRestart ==
  [][(pc = "idle" /\ crash_restart)
       => last_processed_blocks' = last_processed_blocks]_vars

\* C7: within a process lifetime a chain's ScanCursor never decreases,
\* whatever heights the ledger reports.
C7_CursorMonotonic ==
  [][~crash_restart =>
       \A c \in DOMAIN last_processed_blocks :
         /\ c \in DOMAIN last_processed_blocks'
         /\ last_processed_blocks'[c] >= last_processed_blocks[c]]_vars

\* the event a step appended to the list monitor_withdrawals returns
appended_event(h) ==
  /\ Len(all_transactions') = Len(all_transactions) + 1
  /\ all_transactions'[Len(all_transactions')].hash = h

\* C8: within a scan pass send_failed_withdrawal_alert is invoked exactly
\* once for each newly resolved event with status=false, and never for an
\* event with status=true or for a hash already in ProcessedSet.
C8_AlertOncePerNewFailure ==
  /\ [](/\ \A i, j \in 1..Len(pass_alerts) :
             pass_alerts[i] = pass_alerts[j] => i = j
        /\ {pass_alerts[i] : i \in 1..Len(pass_alerts)} =
             {all_transactions[i].hash : i \in
                {j \in 1..Len(all_transactions) :
                   ~all_transactions[j].status}})
  /\ [][\A h \in Hashes :
          /\ alerts'[h] \in {alerts[h], alerts[h] + 1}
          /\ alerts'[h] = alerts[h] + 1 <=>
               /\ appended_event(h)
               /\ ~all_transactions'[Len(all_transactions')].status
               /\ h \notin processed_transactions.tracked]_vars

C8_Witness ==
  /\ pass_alerts # <<>>
  /\ \E i \in 1..Len(all_transactions) : all_transactions[i].status

\* C9: for start_block <= current_block the get-logs requests are
\* consecutive, non-overlapping, ascending sub-ranges of at most 500 blocks
\* that cover exactly [start_block, current_block]; [100, 1199] gives
\* [100,599], [600,1099], [1100,1199].
C9_ChunksTileRange ==
  (chunk_start > current_block /\ start_block <= current_block) =>
    /\ Len(requests) >= 1
    /\ requests[1].fromBlock = start_block
    /\ requests[Len(requests)].toBlock = current_block
    /\ \A i \in 1..Len(requests) :
         /\ requests[i].fromBlock <= requests[i].toBlock
         /\ requests[i].toBlock - requests[i].fromBlock + 1 <= 500
    /\ \A i \in 1..(Len(requests) - 1) :
         requests[i + 1].fromBlock = requests[i].toBlock + 1
    /\ (start_block = 100 /\ current_block = 1199) =>
         requests = <<[fromBlock |-> 100, toBlock |-> 599],
                      [fromBlock |-> 600, toBlock |-> 1099],
                      [fromBlock |-> 1100, toBlock |-> 1199]>>
    /\ requests = chunk_requests(start_block, current_block)

C9_Witness ==
  /\ start_block = 100 /\ current_block = 1199
  /\ chunk_start > current_block
  /\ Len(requests) = 3

\* C10: when a sub-range query failed partway through a chain's pass, the
\* logs of the earlier sub-ranges are discarded: the pass appends no event,
\* adds no hash to ProcessedSet and sends no alert for that chain.
C10_PartialResultsDiscarded ==
  /\ [](scan.logs_failed =>
          /\ recent = {}
          /\ \A i \in 1..Len(all_transactions) :
               all_transactions[i].chain # scan.chain)
  /\ [][(scan.logs_failed /\ scan' = scan) =>
          /\ processed_transactions' = processed_transactions
          /\ daily_transactions' = daily_transactions
          /\ alerts' = alerts]_vars

C10_Witness ==
  /\ scan.logs_failed
  /\ \E t \in logged_transactions(scan) :
        is_withdraw_function(t.input) /\ ~already_processed(t)

\* C11: when the start height of a pass is greater than the current height,
\* the scan issues no get-logs query, returns an empty candidate list and
\* raises no error; the pass appends no event and sends no alert.
C11_EmptyRangeNoQuery ==
  /\ [](scan.start_block > scan.current_block =>
          /\ scan.requests = <<>>
          /\ ~scan.logs_failed
          /\ scan.logged = {}
          /\ recent = {})
  /\ [][(scan.start_block > scan.current_block /\ scan' = scan) =>
          /\ processed_transactions' = processed_transactions
          /\ all_transactions' = all_transactions
          /\ alerts' = alerts]_vars

C11_Witness ==
  /\ scan.had_cursor
  /\ scan.start_block > scan.current_block
  /\ scan.before = 1300 /\ scan.current_block = 1000

\* C12: within one pass a transaction that emitted several matching log
\* entries yields exactly one candidate, and therefore at most one event and
\* at most one alert.
C12_OneCandidatePerTransaction ==
  /\ [](/\ \A x, y \in recent : x.hash = y.hash => x = y
        /\ \A h \in Hashes :
             /\ Count(all_transactions, h) <= 1
             /\ Cardinality({i \in 1..Len(pass_alerts) :
                               pass_alerts[i] = h}) <= 1)
  /\ [][(scan' # scan /\ ~scan'.logs_failed) =>
          \A t \in logged_transactions(scan') :
            (is_withdraw_function(t.input)
             /\ t.hash \notin scan'.fetch_failed) =>
              Cardinality({x \in recent' : x.hash = t.hash}) = 1]_vars

C12_Witness ==
  /\ \E t \in logged_transactions(scan) :
        t.logs >= 2 /\ \E x \in recent : x.hash = t.hash
  /\ ~scan.logs_failed

\* the positions of tx_list whose event lies in [start_time, end_time]
in_window(tx_list, start_time, end_time) ==
  {i \in 1..Len(tx_list) : /\ start_time <= tx_list[i].timestamp
                           /\ tx_list[i].timestamp <= end_time}

\* how many entries of the list entries equal e
Listed(entries, e) == Cardinality({j \in 1..Len(entries) : entries[j] = e})

\* C13: for every ledger content and every window [start, end],
\* get_daily_statistics_for_period returns for each configured chain
\* successCount + failCount = totalCount, every listed event has
\* start <= timestamp <= end, and every ledger event of the chain with
\* timestamp in the window is listed exactly once, in the successful list
\* iff its status is true.
C13_WindowStatistics ==
  query.kind = "period" =>
    \A c \in ChainSet :
      LET r == stats[c]
          tx_list == daily_transactions[c]
          inside == in_window(tx_list, query.start_time, query.end_time)
      IN /\ r.successful_withdrawals + r.failed_withdrawals
              = r.total_withdrawals
         /\ r.successful_withdrawals = Len(r.successful_transactions)
         /\ r.failed_withdrawals = Len(r.failed_transactions)
         /\ r.total_withdrawals = Cardinality(inside)
         /\ \A e \in {r.successful_transactions[j] :
                         j \in 1..Len(r.successful_transactions)}
                  \cup {r.failed_transactions[j] :
                          j \in 1..Len(r.failed_transactions)} :
              query.start_time <= e.timestamp /\ e.timestamp <= query.end_time
         /\ \A e \in {listed(tx_list[i]) : i \in inside} :
              /\ Listed(r.successful_transactions, e) =
                   Cardinality({i \in inside : /\ tx_list[i].status
                                               /\ listed(tx_list[i]) = e})
              /\ Listed(r.failed_transactions, e) =
                   Cardinality({i \in inside : /\ ~tx_list[i].status
                                               /\ listed(tx_list[i]) = e})

C13_Witness ==
  /\ query.kind = "period"
  /\ stats["a"].successful_withdrawals >= 1
  /\ stats["a"].failed_withdrawals >= 1
  /\ daily_transactions["b"] # <<>>
  /\ stats["b"].total_withdrawals = 0

\* 00:00:00 and 23:59:59 of the UTC day of an instant
day_start(date) == (date \div seconds_per_day) * seconds_per_day
day_end(date) == day_start(date) + seconds_per_day - 1

\* C14: for every ledger content and every date, get_daily_statistics(date)
\* returns what get_daily_statistics_for_period returns for the window from
\* 00:00:00 to 23:59:59 of that UTC date: same counts and same event lists
\* per chain.
C14_CalendarDayIsWindow ==
  query.kind = "date" =>
    stats = statistics_for_period(daily_transactions, day_start(query.date),
                                  day_end(query.date))

C14_Witness ==
  /\ query.kind = "date"
  /\ Len(daily_transactions["a"]) = 2
  /\ stats["a"].total_withdrawals = 1

\* C16: the statistics queries are pure reads: they leave EventLedger,
\* ProcessedSet and every ScanCursor unchanged and issue no ledger query.
C16_StatisticsPureReads ==
  [][(query' # query \/ stats' # stats) =>
       /\ daily_transactions' = daily_transactions
       /\ processed_transactions' = processed_transactions
       /\ last_processed_blocks' = last_processed_blocks
       /\ file_daily' = file_daily /\ file_processed' = file_processed
       /\ scan' = scan /\ requests' = requests]_vars

C16_Witness ==
  /\ query.kind \in {"period", "date"}
  /\ \E c \in ChainSet :
       /\ stats[c].total_withdrawals >= 1
       /\ stats[c].total_withdrawals < Len(daily_transactions[c])

\* C15: cleanup_old_data with the 7-day horizon removes every event with
\* timestamp < now - 7 days and retains every other event, the one whose
\* timestamp equals now - 7 days included, in the order they had.
C15_PruneKeepsBoundary ==
  [][(cleanup_old_data /\ \E c \in ChainSet : daily_transactions[c] # <<>>)
       => \A c \in ChainSet :
            daily_transactions'[c] =
              SelectSeq(daily_transactions[c],
                        LAMBDA tx : ~(tx.timestamp <
                                        now - days_to_keep * seconds_per_day))
     ]_vars

\* C17: a failure while scanning or resolving one chain does not abort the
\* cycle: the chains are scanned one after the other whatever failed, the
\* events of the other chains are recorded, and the saves are reached only
\* after the last chain.
C17_ChainFailureIsolated ==
  /\ [](pc \in {"save_daily", "cleanup"} => chainIdx = Len(Chains) + 1)
  /\ [](pc = "chains" =>
          ENABLED (\/ get_recent_transactions
                   \/ process_transaction
                   \/ save_processed_transactions))
  /\ [][chainIdx' # chainIdx =>
          \/ chainIdx' = 1
          \/ /\ chainIdx' = chainIdx + 1
             /\ scan'.chain = Chains[chainIdx]
             /\ pc' = "chains"]_vars
  /\ [][(pc = "chains" /\ faults' # faults /\ ~crash_restart) =>
          /\ pc' \in {"chains", "save_daily"}
          /\ \A i \in 1..Len(all_transactions) :
               all_transactions'[i] = all_transactions[i]]_vars

C17_Witness ==
  /\ pc = "save_daily"
  /\ "a" \notin DOMAIN last_processed_blocks
  /\ \E i \in 1..Len(all_transactions) : all_transactions[i].chain = "b"
  /\ file_processed.exists /\ "h3" \in file_processed.data.tracked

\* a step of the loop of monitor_withdrawals over the candidates
loop_step == pc = "chains" /\ scan' = scan /\ recent' # recent

\* the loop step in which get_transaction_receipt returned None for h
receipt_none_step(h) ==
  /\ loop_step
  /\ \E x \in recent \ recent' : x.hash = h
  /\ faults' = faults + 1
  /\ alerts' = alerts

\* C18: when the receipt of a candidate is unavailable, no event is created
\* for it and its hash is not added to ProcessedSet, so a later pass that
\* surfaces the hash resolves it again.
C18_ReceiptUnavailableSkipped ==
  /\ [][\A h \in Hashes : receipt_none_step(h) =>
          /\ h \in receipt_unavailable'
          /\ all_transactions' = all_transactions
          /\ daily_transactions' = daily_transactions
          /\ processed_transactions' = processed_transactions
          /\ h \notin processed_transactions'.tracked]_vars
  /\ [][\A h \in receipt_unavailable :
          (/\ loop_step
           /\ \E x \in recent \ recent' : x.hash = h
           /\ h \notin processed_transactions.tracked
           /\ ~receipt_none_step(h))
          => /\ appended_event(h)
             /\ h \in processed_transactions'.tracked]_vars

C18_Witness ==
  \E h \in receipt_unavailable :
    /\ \E i \in 1..Len(all_transactions) : all_transactions[i].hash = h
    /\ h \in processed_transactions.tracked

\* the loop step in which the alert for h was not delivered
notify_failed_step(h) ==
  /\ loop_step
  /\ alerts'[h] = alerts[h] + 1
  /\ faults' = faults + 1

C20_EvictsOldest ==
  [][(/\ cleanup_old_data
      /\ \E c \in ChainSet : daily_transactions[c] # <<>>
      /\ processed_size(processed_transactions) > processed_limit)
       => \A i \in 1..Len(all_transactions) :
            all_transactions[i].hash \in processed_transactions'.tracked
     ]_vars

(* C21: after every completed scan cycle (the step that ends                *)
(* run_single_check) ProcessedSet holds at most 10000 hashes, whatever was  *)
(* loaded at startup and whatever the pass found.                           *)
C21_ProcessedSetBounded ==
  [][cleanup_old_data =>
       processed_size(processed_transactions') <= processed_limit]_vars

write_failed_step ==
  /\ save_processed_transactions \/ save_daily_transactions
  /\ faults' = faults + 1

C24_MatcherExact ==
  matched # <<>> =>
    /\ Len(tx_input) < 4 => ~matched[1]
    /\ matched[1] <=>
         /\ Len(tx_input) >= 4
         /\ \A i \in 1..4 : tx_input[i] = withdraw_selector[i]
    /\ transactions # <<>> => matched[1] /\ transactions[1].input = tx_input
    /\ matched[1] => Len(transactions) = 1

C24_Witness ==
  /\ matched = <<TRUE>>
  /\ Len(tx_input) > 4
  /\ Len(transactions) = 1

\* the inputs of the ledger's withdraw calls that the codec rejects
UndecodableInputs == {TruncatedCall, BadPaddingCall}

(* C25: when the parameters of a candidate cannot be decoded, the candidate *)
(* is resolved like any other (unless its receipt is unavailable): its      *)
(* event has an empty decoded_params, is appended to the returned list and  *)
(* to EventLedger, its hash is added to ProcessedSet, and the alert is sent *)
(* exactly when the receipt status is 0.                                    *)
C25_DecodeFailureStillRecorded ==
  [][\A x \in recent :
       (/\ loop_step
        /\ x \notin recent'
        /\ x.input \in UndecodableInputs
        /\ ~already_processed(x)
        /\ ~receipt_none_step(x.hash))
       => /\ appended_event(x.hash)
          /\ DOMAIN all_transactions'[Len(all_transactions')].decoded_params
               = {}
          /\ daily_transactions'[scan.chain] =
               Append(daily_transactions[scan.chain],
                      all_transactions'[Len(all_transactions')])
          /\ x.hash \in processed_transactions'.tracked
          /\ x.receipt_status = 0 => alerts'[x.hash] = alerts[x.hash] + 1
          /\ x.receipt_status # 0 => alerts' = alerts]_vars

\* a failed withdrawal with undecodable parameters was recorded and alerted
C25_Witness ==
  \E i \in 1..Len(all_transactions) :
    LET e == all_transactions[i] IN
    /\ get_transaction(e.hash).input \in UndecodableInputs
    /\ DOMAIN e.decoded_params = {}
    /\ ~e.status
    /\ alerts[e.hash] > 0
    /\ e.hash \in processed_transactions.tracked
    /\ Count(daily_transactions[e.chain], e.hash) > 0

\* the events of the pass and of the ledger
recorded_events ==
  {all_transactions[i] : i \in 1..Len(all_transactions)}
  \cup UNION {{daily_transactions[c][i] :
                 i \in 1..Len(daily_transactions[c])} : c \in ChainSet}

(* C26: every resolved event has status true when the status of its         *)
(* receipt is 1 and status false when it is 0.                              *)
C26_StatusFromReceipt ==
  \A e \in recorded_events :
    /\ get_transaction(e.hash).receipt_status = 1 => e.status
    /\ get_transaction(e.hash).receipt_status = 0 => ~e.status
    /\ e.status => get_transaction(e.hash).receipt_status = 1

\* a pass resolved a transaction of either kind
C26_Witness ==
  /\ \E i \in 1..Len(all_transactions) :
        /\ all_transactions[i].status
        /\ get_transaction(all_transactions[i].hash).receipt_status = 1
  /\ \E i \in 1..Len(all_transactions) :
        /\ ~all_transactions[i].status
        /\ get_transaction(all_transactions[i].hash).receipt_status = 0

\* the transactions a get_recent_transactions call fetched: every logged
\* transaction once no get_logs request had raised
fetched(s) == IF s.logs_failed THEN {} ELSE s.logged

(* C27: once an event with a given hash is recorded, later passes issue no  *)
(* transaction, receipt or block fetch for a hash in ProcessedSet, and the  *)
(* recorded events are not modified by the passes.                          *)
C27_NeverReResolved ==
  [][/\ scan' # scan =>
          fetched(scan') \cap processed_transactions.tracked = {}
     /\ (pc = "chains" /\ pc' = "chains") =>
          \A c \in ChainSet :
            /\ Len(daily_transactions'[c]) >= Len(daily_transactions[c])
            /\ SubSeq(daily_transactions'[c], 1, Len(daily_transactions[c]))
                 = daily_transactions[c]]_vars

(* C28: when a scan cycle has completed, daily_transactions.json holds no   *)
(* event older than 7 days and equals the in-memory EventLedger.            *)
C28_DurableLedgerPruned ==
  [][cleanup_old_data =>
       /\ file_daily'.exists
       /\ file_daily'.data = daily_transactions'
       /\ \A c \in ChainSet :
            \A i \in 1..Len(file_daily'.data[c]) :
              file_daily'.data[c][i].timestamp
                >= now' - days_to_keep * seconds_per_day]_vars

(* C29: within a chain, an event appended by a pass has a higher block      *)
(* number than every event of the chain's ledger that an earlier pass of    *)
(* the same process appended.                                               *)
C29_LedgerInScanOrder ==
  [][\A c \in ChainSet :
       (loop_step /\ Len(daily_transactions'[c])
                       = Len(daily_transactions[c]) + 1) =>
         \A i \in 1..Len(daily_transactions[c]) :
           (/\ daily_transactions[c][i].hash \notin loaded
            /\ Count(all_transactions, daily_transactions[c][i].hash) = 0)
           => daily_transactions[c][i].block_number
                < daily_transactions'[c][Len(daily_transactions'[c])]
                    .block_number]_vars

\* the last get_recent_transactions call got a height and found no cursor
first_scan == scan.current_block # 0 /\ ~scan.had_cursor

(* C30: the first scan of a chain that has no cursor covers exactly the     *)
(* blocks current height - initial_block_range .. current height, and a     *)
(* process that found no processed_transactions.json starts with an empty   *)
(* ProcessedSet.                                                            *)
C30_FirstScanRange ==
  /\ first_scan =>
       /\ scan.start_block = scan.current_block - InitialBlockRange
       /\ ~scan.logs_failed =>
            /\ scan.requests # <<>>
            /\ scan.requests[1].fromBlock
                 = scan.current_block - InitialBlockRange
            /\ scan.requests[Len(scan.requests)].toBlock = scan.current_block
            /\ \A i \in 1..(Len(scan.requests) - 1) :
                 scan.requests[i + 1].fromBlock = scan.requests[i].toBlock + 1
  /\ (DOMAIN last_processed_blocks = {} /\ ~file_processed.exists) =>
       processed_size(processed_transactions) = 0

\* the first scan of a process that started without files
C30_Witness ==
  /\ first_scan
  /\ ~scan.logs_failed
  /\ cycles = 1
  /\ loaded = {}
  /\ ~file_processed.exists
  /\ scan.logged # {}
  /\ scan.requests[1].fromBlock = scan.current_block - InitialBlockRange
  /\ processed_size(processed_transactions) = 0

\* whether two calls of send_low_balance_alert have the same alert key:
\* the same chain and the same token symbol
same_key(x, y) == x.chain = y.chain /\ x.token_symbol = y.token_symbol

\* the accepted calls before call j that have its alert key
accepted_before(j) ==
  {i \in 1..(j - 1) : /\ same_key(alert_calls[i], alert_calls[j])
                      /\ alert_calls[i].sent}

\* the accepted calls that no accepted call with the same key follows
last_accepted ==
  {i \in 1..Len(alert_calls) :
     /\ alert_calls[i].sent
     /\ \A j \in (i + 1)..Len(alert_calls) :
          alert_calls[j].sent => i \notin accepted_before(j)}

\* C31: for every alert key (chain, token symbol) send_low_balance_alert
\* sends at most one alert per cooldown window of 60 minutes.  A call is
\* rejected (returns false, nothing is sent) exactly when an accepted call
\* with the same key lies less than 60 minutes back, whatever happened to
\* other keys; two accepted calls with one key are at least 60 minutes
\* apart; and the recorded times are those of the last accepted call of each
\* key, so a rejected call changed none.
C31_CooldownPerKey ==
  /\ \A j \in 1..Len(alert_calls) :
       LET call == alert_calls[j] IN
       /\ ~call.sent <=>
            \E i \in accepted_before(j) :
              call.time - alert_calls[i].time < alert_cooldown_minutes * 60
       /\ ~call.sent => ~call.returned
       /\ call.sent =>
            \A i \in accepted_before(j) :
              call.time - alert_calls[i].time >= alert_cooldown_minutes * 60
  /\ Cardinality(DOMAIN last_balance_alerts) = Cardinality(last_accepted)
  /\ {last_balance_alerts[k] : k \in DOMAIN last_balance_alerts}
       = {alert_calls[i].time : i \in last_accepted}

\* an accepted call, then within its window an accepted call for another
\* key and a rejected call for the same key
C31_Witness ==
  /\ Len(alert_calls) = 3
  /\ alert_calls[1].sent
  /\ alert_calls[2].sent
  /\ ~same_key(alert_calls[1], alert_calls[2])
  /\ same_key(alert_calls[1], alert_calls[3])
  /\ ~alert_calls[3].sent
  /\ ~alert_calls[3].returned
  /\ alert_calls[3].time > alert_calls[1].time
  /\ last_balance_alerts[alert_key_of(alert_calls[3])] = alert_calls[1].time

\* C32: send_low_balance_alert records the time of an accepted call before
\* it tries to deliver, so a call whose delivery failed (send_message
\* returned false) starts the cooldown like any other: its time is recorded
\* for its key and no call for that key in the following 60 minutes is
\* attempted.
C32_FailedDeliveryStartsCooldown ==
  \A i \in 1..Len(alert_calls) :
    LET call == alert_calls[i] IN
    (call.sent /\ ~call.returned) =>
      /\ alert_key_of(call) \in DOMAIN last_balance_alerts
      /\ last_balance_alerts[alert_key_of(call)] >= call.time
      /\ \A j \in (i + 1)..Len(alert_calls) :
           (/\ same_key(alert_calls[j], call)
            /\ alert_calls[j].time - call.time < alert_cooldown_minutes * 60)
           => ~alert_calls[j].sent

\* a delivery failed and a later call for the same key, 59 minutes and 59
\* seconds after it, was rejected
C32_Witness ==
  \E i \in 1..Len(alert_calls), j \in 1..Len(alert_calls) :
    /\ i < j
    /\ alert_calls[i].sent
    /\ ~alert_calls[i].returned
    /\ same_key(alert_calls[i], alert_calls[j])
    /\ alert_calls[j].time = alert_calls[i].time
                               + alert_cooldown_minutes * 60 - 1
    /\ ~alert_calls[j].sent
    /\ last_balance_alerts[alert_key_of(alert_calls[j])] = alert_calls[i].time

\* the chains other than c whose ledger holds an event with hash h
recorded_elsewhere(h, c) ==
  {d \in ChainSet \ {c} :
     \E i \in 1..Len(daily_transactions[d]) : daily_transactions[d][i].hash = h}

\* C33: ProcessedSet is keyed by the hash alone and shared by the chains.  In
\* every iteration of the loop over a chain's candidates, a candidate whose
\* hash is in ProcessedSet and was recorded for another chain is skipped: no
\* event is appended to any ledger or to the result, the set stays as it is
\* and no alert is sent.
C33_SharedAcrossChains ==
  [][\A x \in recent :
       (/\ loop_step
        /\ x \notin recent'
        /\ x.hash \in processed_transactions.tracked
        /\ recorded_elsewhere(x.hash, scan.chain) # {})
       => /\ daily_transactions' = daily_transactions
          /\ all_transactions' = all_transactions
          /\ processed_transactions' = processed_transactions
          /\ alerts' = alerts]_vars

\* h3 was recorded for chain a, the scan of chain b returned it, the loop
\* has passed it, and chain b has no event and no alert for it although its
\* receipt says it failed
C33_Witness ==
  /\ pc = "chains"
  /\ scan.chain = "b"
  /\ "h3" \in scan.logged
  /\ ~scan.logs_failed
  /\ "h3" \notin scan.fetch_failed
  /\ \A x \in recent : x.hash # "h3"
  /\ "h3" \in processed_transactions.tracked
  /\ recorded_elsewhere("h3", "b") = {"a"}
  /\ \A i \in 1..Len(daily_transactions["b"]) :
       daily_transactions["b"][i].hash # "h3"
  /\ get_transaction("h3").receipt_status = 0
  /\ alerts["h3"] = 0

\* the chains whose connection failed when the process started
not_connected == ChainSet \ web3_instances

\* C34: a chain whose connection failed at startup is not scanned for the
\* rest of the process lifetime.  No step but a restart changes the set of
\* connected chains (no reconnection); such a chain never has a cursor; a
\* pass over it issues no request and returns no candidate; and that pass
\* only moves the loop on to the next chain, leaving ledgers, ProcessedSet,
\* files and the other chains' cursors as they are.
C34_UnconnectedNeverScanned ==
  [][/\ \/ web3_instances' = web3_instances
        \/ crash_restart_connecting(SUBSET ChainSet)
     /\ \A c \in ChainSet \ web3_instances' :
          c \notin DOMAIN last_processed_blocks'
     /\ scan'.chain \in ChainSet \ web3_instances' =>
          /\ recent' = {}
          /\ scan'.requests = <<>>
          /\ scan'.logged = {}
     /\ (/\ pc = "chains" /\ recent = {} /\ chainIdx <= Len(Chains)
         /\ Chains[chainIdx] \in not_connected
         /\ pc' = "chains")
        => /\ chainIdx' = chainIdx + 1
           /\ UNCHANGED <<last_processed_blocks, daily_transactions,
                          processed_transactions, all_transactions, alerts,
                          file_processed, file_daily>>]_vars

\* the second pass of a process that could not connect to chain a: the
\* pass over a has just returned nothing, a has no cursor, and chain b was
\* scanned and its failed withdrawal h3 recorded in the first pass
C34_Witness ==
  /\ not_connected = {"a"}
  /\ cycles = 2
  /\ pc = "chains"
  /\ chainIdx = 2
  /\ scan.chain = "a"
  /\ recent = {}
  /\ DOMAIN last_processed_blocks = {"b"}
  /\ \E i \in 1..Len(daily_transactions["b"]) :
       daily_transactions["b"][i].hash = "h3"
  /\ daily_transactions["a"] = <<>>
  /\ faults = 0

\* the events appended to chain c's ledger since the pass was entered
appended_in_pass(c) ==
  SubSeq(daily_transactions[c], pass_start.ledger[c] + 1,
         Len(daily_transactions[c]))

\* the same for the first n chains, in the order the pass appended them
\* (the loop takes the chains one after the other)
RECURSIVE appended_upto(_)
appended_upto(n) ==
  IF n = 0 THEN <<>>
  ELSE appended_upto(n - 1) \o appended_in_pass(Chains[n])

\* C35: when monitor_withdrawals returns (and at every point of the pass
\* before), its result list holds exactly the events the pass has appended
\* to the ledgers, of all chains and in the order they were appended; every
\* hash in it is in ProcessedSet and was not in ProcessedSet when the pass
\* was entered.
C35_ReturnsAppendedEvents ==
  pc \in {"chains", "save_daily", "cleanup"} =>
    /\ all_transactions = appended_upto(Len(Chains))
    /\ \A i \in 1..Len(all_transactions) :
         /\ all_transactions[i].hash \in processed_transactions.tracked
         /\ all_transactions[i].hash \notin pass_start.processed

\* a pass has returned two events, one per chain, appended behind an event
\* the ledger of chain a held before the pass
C35_Witness ==
  /\ pc = "cleanup"
  /\ Len(all_transactions) = 2
  /\ all_transactions[1].chain = "a"
  /\ all_transactions[2].chain = "b"
  /\ pass_start.ledger["a"] = 1
  /\ Len(daily_transactions["a"]) = 2
  /\ all_transactions[1] = daily_transactions["a"][2]
  /\ pass_start.processed = {"h2"}

\* whether two events agree in the fields a Transaction is known by
same_event(x, y) ==
  /\ x.hash = y.hash
  /\ x.block_number = y.block_number
  /\ x.status = y.status
  /\ x.timestamp = y.timestamp
  /\ x.gas_used = y.gas_used

\* C36: saving the ledger and loading it at the next start is a round trip.
\* The ledger _load_daily_transactions builds from the file has the chains
\* the ledger in memory had when _save_daily_transactions wrote it and, for
\* each chain, as many events, in the same order, with equal hash, block
\* number, status, timestamp and gas used.
C36_LedgerRoundTrip ==
  [][read_daily_file =>
       /\ DOMAIN daily_transactions' = DOMAIN daily_transactions
       /\ \A c \in DOMAIN daily_transactions :
            /\ Len(daily_transactions'[c]) = Len(daily_transactions[c])
            /\ \A i \in 1..Len(daily_transactions[c]) :
                 same_event(daily_transactions'[c][i],
                            daily_transactions[c][i])]_vars

\* the second process has loaded a ledger of two chains; chain a has two
\* different events, one of them with the time 23:59:59, and the file holds
\* that time in its ISO form
C36_Witness ==
  /\ starts = 2
  /\ DOMAIN daily_transactions = ChainSet
  /\ Len(daily_transactions["a"]) = 2
  /\ ~same_event(daily_transactions["a"][1], daily_transactions["a"][2])
  /\ daily_transactions["a"][2].timestamp = 2 * seconds_per_day - 1
  /\ file_daily.data["a"][2].timestamp =
       [date |-> 1, hour |-> 23, minute |-> 59, second |-> 59,
        utcoffset |-> 0]
  /\ Len(daily_transactions["b"]) = 1

\* what holds of a wrapper call at every point: func was called at most
\* max_retries times and never after it returned; the sleeps so far were
\* backoff_factor^0, backoff_factor^1, ..., one after each failure but the
\* last; a value returned is that of the one successful call; an exception
\* raised is that of the last of max_retries failed calls
retry_bounded ==
  /\ Len(invocations) <= max_retries
  /\ \A i \in 1..(Len(invocations) - 1) : ~invocations[i].ok
  /\ \A k \in 1..Len(sleeps) : sleeps[k] = backoff_factor ^ (k - 1)
  /\ wrapper_result.kind = "running" =>
       /\ Len(sleeps) = Len(invocations)
       /\ \A i \in 1..Len(invocations) : ~invocations[i].ok
  /\ (wrapper_result.kind = "returned" /\ invocations # <<>>) =>
       /\ invocations[Len(invocations)].ok
       /\ wrapper_result.value = invocations[Len(invocations)].value
       /\ Len(sleeps) = Len(invocations) - 1
  /\ (wrapper_result.kind = "returned" /\ invocations = <<>>) =>
       max_retries = 0
  /\ wrapper_result.kind = "raised" =>
       /\ Len(invocations) = max_retries
       /\ \A i \in 1..Len(invocations) : ~invocations[i].ok
       /\ wrapper_result.exception = invocations[max_retries].exception
       /\ Len(sleeps) = max_retries - 1

\* C37: a function wrapped by retry_with_backoff(max_retries=n) is called at
\* most n times per call of the wrapper; the wrapper returns the value of
\* the first successful call and calls no more; it sleeps
\* backoff_factor^attempt seconds between attempts; after n failures in a
\* row it raises the last exception again; and it always ends.
C37_RetryBounded ==
  /\ []retry_bounded
  /\ <>(wrapper_result.kind # "running")

\* with max_retries = 3 and backoff_factor = 3: two failures, sleeps of 1
\* and 3 seconds, and the third call's value returned
C37_Witness ==
  /\ max_retries = 3
  /\ backoff_factor = 3
  /\ Len(invocations) = 3
  /\ sleeps = <<1, 3>>
  /\ wrapper_result = [kind |-> "returned", value |-> "r2"]

\* the allowed calls among the first n calls of is_allowed
allowed_upto(n) == {i \in 1..n : answers[i].allowed}

\* the times of the allowed calls, in call order
allowed_times ==
  LET picked == SelectSeq(answers, LAMBDA a : a.allowed)
  IN [i \in 1..Len(picked) |-> picked[i].time]

\* C38: for is_allowed calls at non-decreasing times, at most max_calls
\* calls are allowed in any interval of length time_window (the interval
\* from an allowed call up to, not including, the instant time_window
\* later); a denied call is not recorded (self.calls holds the times of the
\* allowed calls less than time_window before the last call, and no other);
\* and a call is allowed exactly when fewer than max_calls allowed calls lie
\* less than time_window before it.
C38_RateLimited ==
  /\ \A i \in allowed_upto(Len(answers)) :
       Cardinality({j \in allowed_upto(Len(answers)) :
                      /\ answers[i].time <= answers[j].time
                      /\ answers[j].time < answers[i].time + time_window})
         <= max_calls
  /\ answers # <<>> =>
       calls = SelectSeq(allowed_times,
                         LAMBDA t : answers[Len(answers)].time - t
                                      < time_window)
  /\ \A j \in 1..Len(answers) :
       answers[j].allowed <=>
         Cardinality({i \in allowed_upto(j - 1) :
                        answers[j].time - answers[i].time < time_window})
           < max_calls

\* max_calls = 1 and time_window = 2: a call allowed, a call one second
\* later denied and not recorded, and a call exactly time_window after the
\* first allowed
C38_Witness ==
  /\ max_calls = 1
  /\ time_window = 2
  /\ Len(answers) = 3
  /\ answers[1].allowed
  /\ answers[2].time = answers[1].time + 1
  /\ ~answers[2].allowed
  /\ answers[3].time = answers[1].time + time_window
  /\ answers[3].allowed
  /\ calls = <<answers[3].time>>

====
